---- MODULE Spec2Model ----
(***************************************************************************)
(* Model of src/minesweeper.py: the Minesweeper board, the Sentence class  *)
(* and the MinesweeperAI knowledge base.                                   *)
(*                                                                         *)
(* A cell is a pair <<i, j>>.  A sentence is a record [cells, count].      *)
(* The knowledge base is the record [moves_made, safes, mines, knowledge], *)
(* knowledge being the Python list of sentences in order.  Every method of *)
(* MinesweeperAI is an operator from knowledge base to knowledge base, and *)
(* every action applies one whole method call.                             *)
(***************************************************************************)
EXTENDS Integers, Sequences, FiniteSets, TLC

\* Largest number of cells (height * width) of a checked board.
MaxCells == 6
\* Side of the square boards of the once-per-cell caller (SpecOnce), the
\* largest number of mines on them, and the number of its calls.
OnceSide == 3
OnceMines == 2
OnceObs == 4
\* Largest number of cells of a board of the unconstrained caller (SpecAny).
MaxAnyCells == 4
\* Number of calls in a run of the unconstrained caller (SpecAny).
MaxOps == 3
\* Largest count the unconstrained caller passes to add_knowledge.
MaxCount == 2

VARIABLES height, width, board, moves_made, safes, mines, knowledge, last, nops

vars == <<height, width, board, moves_made, safes, mines, knowledge, last, nops>>

\* The cells of the grid: (i, j) with i in range(height), j in range(width).
Cells == (0 .. height - 1) \X (0 .. width - 1)

\* Python's None, as returned by the move queries.
None == <<>>

Range(seq) == {seq[k] : k \in DOMAIN seq}

(***************************************************************************)
(* class Minesweeper                                                       *)
(***************************************************************************)

is_mine(cell) == cell \in board

nearby_mines(cell) ==
    Cardinality({c \in ((cell[1] - 1) .. (cell[1] + 1)) \X ((cell[2] - 1) .. (cell[2] + 1)) :
                    /\ c # cell
                    /\ 0 <= c[1] /\ c[1] < height /\ 0 <= c[2] /\ c[2] < width
                    /\ c \in board})

(***************************************************************************)
(* class Sentence                                                          *)
(***************************************************************************)

Sentence(cells, count) == [cells |-> cells, count |-> count]

\* Variant: any sentence with a positive count gives all its cells as mines.
known_mines_positive(s) == IF s.count > 0 THEN s.cells ELSE {}

known_mines(s) == IF Cardinality(s.cells) = s.count THEN s.cells ELSE {}

\* Variant: a sentence with a count of at most 1 gives all its cells as safe.
known_safes_low(s) == IF s.count <= 1 THEN s.cells ELSE {}

known_safes(s) == IF s.count = 0 THEN s.cells ELSE {}

\* Variant: the cell is removed and the count is left as it was.
Sentence_mark_mine_keep_count(s, cell) ==
    IF cell \in s.cells
    THEN [cells |-> s.cells \ {cell}, count |-> s.count]
    ELSE s

\* Sentence.mark_mine: the sentence after the call.
Sentence_mark_mine(s, cell) ==
    IF cell \in s.cells
    THEN [cells |-> s.cells \ {cell}, count |-> s.count - 1]
    ELSE s

\* Sentence.mark_mine: the value the call returns.
Sentence_mark_mine_ret(s, cell) == cell \in s.cells

\* Variant: the cell is removed and the count is decreased by 1.
Sentence_mark_safe_decrement(s, cell) ==
    IF cell \in s.cells
    THEN [cells |-> s.cells \ {cell}, count |-> s.count - 1]
    ELSE s

\* Sentence.mark_safe: the sentence after the call.
Sentence_mark_safe(s, cell) ==
    IF cell \in s.cells
    THEN [cells |-> s.cells \ {cell}, count |-> s.count]
    ELSE s

\* Sentence.mark_safe: the value the call returns.
Sentence_mark_safe_ret(s, cell) == cell \in s.cells

(***************************************************************************)
(* class MinesweeperAI                                                     *)
(***************************************************************************)

EmptyKB == [moves_made |-> {}, safes |-> {}, mines |-> {}, knowledge |-> <<>>]

\* Variant: the count of every sentence is decreased, the sentences without
\* the cell included.
mark_mine_every_count(kb, cell) ==
    [kb EXCEPT !.mines = @ \cup {cell},
               !.knowledge = [k \in DOMAIN @ |->
                                 [cells |-> @[k].cells \ {cell},
                                  count |-> @[k].count - 1]]]

mark_mine(kb, cell) ==
    [kb EXCEPT !.mines = @ \cup {cell},
               !.knowledge = [k \in DOMAIN @ |-> Sentence_mark_mine(@[k], cell)]]

\* Variant: marking a cell safe also withdraws it from mines.
mark_safe_exclusive(kb, cell) ==
    [kb EXCEPT !.safes = @ \cup {cell},
               !.mines = @ \ {cell},
               !.knowledge = [k \in DOMAIN @ |-> Sentence_mark_safe(@[k], cell)]]

mark_safe(kb, cell) ==
    [kb EXCEPT !.safes = @ \cup {cell},
               !.knowledge = [k \in DOMAIN @ |-> Sentence_mark_safe(@[k], cell)]]

\* for tempSafe in safes: self.mark_safe(tempSafe)
RECURSIVE MarkSafes(_, _)
MarkSafes(kb, todo) ==
    IF todo = {} THEN kb
    ELSE LET c == CHOOSE x \in todo : TRUE
         IN MarkSafes(mark_safe(kb, c), todo \ {c})

\* for tempMine in mines: self.mark_mine(tempMine)
RECURSIVE MarkMines(_, _)
MarkMines(kb, todo) ==
    IF todo = {} THEN kb
    ELSE LET c == CHOOSE x \in todo : TRUE
         IN MarkMines(mark_mine(kb, c), todo \ {c})

\* Variant: the cells that known_mines gives are collected as safe.
NewSafes_of_known_mines(kb) ==
    UNION {known_mines(s) : s \in Range(kb.knowledge)} \ kb.safes

\* The local list safes of mark_cells, as a set.
NewSafes(kb) == UNION {known_safes(s) : s \in Range(kb.knowledge)} \ kb.safes

\* The local list mines of mark_cells, as a set.
NewMines(kb) == UNION {known_mines(s) : s \in Range(kb.knowledge)} \ kb.mines

mark_cells(kb) == MarkMines(MarkSafes(kb, NewSafes(kb)), NewMines(kb))

\* Variant: the neighbour below and to the right is left out.
neighbors_no_lower_right(cell) ==
    LET i == cell[1]
        j == cell[2]
    IN  (IF i > 0
         THEN {<<i - 1, j>>}
              \cup (IF j > 0 THEN {<<i - 1, j - 1>>} ELSE {})
              \cup (IF j < width - 1 THEN {<<i - 1, j + 1>>} ELSE {})
         ELSE {})
        \cup
        (IF i < height - 1
         THEN {<<i + 1, j>>}
              \cup (IF j > 0 THEN {<<i + 1, j - 1>>} ELSE {})
         ELSE {})
        \cup (IF j < width - 1 THEN {<<i, j + 1>>} ELSE {})
        \cup (IF j > 0 THEN {<<i, j - 1>>} ELSE {})

\* The list neighbors built by add_knowledge, as a set.
neighbors(cell) ==
    LET i == cell[1]
        j == cell[2]
    IN  (IF i > 0
         THEN {<<i - 1, j>>}
              \cup (IF j > 0 THEN {<<i - 1, j - 1>>} ELSE {})
              \cup (IF j < width - 1 THEN {<<i - 1, j + 1>>} ELSE {})
         ELSE {})
        \cup
        (IF i < height - 1
         THEN {<<i + 1, j>>}
              \cup (IF j > 0 THEN {<<i + 1, j - 1>>} ELSE {})
              \cup (IF j < width - 1 THEN {<<i + 1, j + 1>>} ELSE {})
         ELSE {})
        \cup (IF j < width - 1 THEN {<<i, j + 1>>} ELSE {})
        \cup (IF j > 0 THEN {<<i, j - 1>>} ELSE {})

\* self.moves_made.add(cell); self.safes.add(cell)
RecordMove(kb, cell) ==
    [kb EXCEPT !.moves_made = @ \cup {cell}, !.safes = @ \cup {cell}]

\* for known_mine in self.mines: if known_mine in newSentence.cells: ...
RECURSIVE NormalizeOver(_, _)
NormalizeOver(s, todo) ==
    IF todo = {} THEN s
    ELSE LET m == CHOOSE x \in todo : TRUE
         IN NormalizeOver(Sentence_mark_mine(s, m), todo \ {m})

\* newSentence at the membership test: the normalization loop is nested in a
\* loop over self.knowledge, so it runs only when knowledge is not empty.
Candidate(kb, cell, count) ==
    LET newSentence == Sentence({n \in neighbors(cell) : n \notin kb.safes}, count)
    IN  IF kb.knowledge = <<>>
        THEN newSentence
        ELSE NormalizeOver(newSentence, kb.mines)

\* if newSentence not in self.knowledge: self.knowledge.append(newSentence)
InsertCandidate(kb, s) ==
    IF s \in Range(kb.knowledge)
    THEN kb
    ELSE [kb EXCEPT !.knowledge = Append(@, s)]

\* Variant: the difference keeps the count of the larger sentence.
Difference_keep_count(s1, s2) == Sentence(s2.cells \ s1.cells, s2.count)

Difference(s1, s2) == Sentence(s2.cells \ s1.cells, s2.count - s1.count)

\* Variant: every difference of a sentence and a superset of it is kept,
\* whatever its cells and its count.
new_sentences_unguarded(K) ==
    LET n == Len(K)
        present == Range(K)
        pairs == [p \in 1 .. (n * n) |-> <<((p - 1) \div n) + 1, ((p - 1) % n) + 1>>]
        keep(pr) ==
            LET sentence1 == K[pr[1]]
                sentence2 == K[pr[2]]
            IN  /\ sentence1 # sentence2
                /\ sentence1.cells \subseteq sentence2.cells
                /\ Difference(sentence1, sentence2) \notin present
        kept == SelectSeq(pairs, keep)
    IN  IF n = 0 THEN <<>>
        ELSE [k \in 1 .. Len(kept) |-> Difference(K[kept[k][1]], K[kept[k][2]])]

\* Variant: a difference is kept only when its count is positive.
new_sentences_positive(K) ==
    LET n == Len(K)
        present == Range(K)
        pairs == [p \in 1 .. (n * n) |-> <<((p - 1) \div n) + 1, ((p - 1) % n) + 1>>]
        keep(pr) ==
            LET sentence1 == K[pr[1]]
                sentence2 == K[pr[2]]
            IN  /\ sentence1 # sentence2
                /\ sentence1.cells \subseteq sentence2.cells
                /\ Cardinality(sentence2.cells \ sentence1.cells) > 0
                /\ sentence2.count - sentence1.count > 0
                /\ Difference(sentence1, sentence2) \notin present
        kept == SelectSeq(pairs, keep)
    IN  IF n = 0 THEN <<>>
        ELSE [k \in 1 .. Len(kept) |-> Difference(K[kept[k][1]], K[kept[k][2]])]

\* The list new_sentences of the resolution pass over the list K.
new_sentences(K) ==
    LET n == Len(K)
        present == Range(K)
        pairs == [p \in 1 .. (n * n) |-> <<((p - 1) \div n) + 1, ((p - 1) % n) + 1>>]
        keep(pr) ==
            LET sentence1 == K[pr[1]]
                sentence2 == K[pr[2]]
            IN  /\ sentence1 # sentence2
                /\ sentence1.cells \subseteq sentence2.cells
                /\ Cardinality(sentence2.cells \ sentence1.cells) > 0
                /\ sentence2.count - sentence1.count >= 0
                /\ Difference(sentence1, sentence2) \notin present
        kept == SelectSeq(pairs, keep)
    IN  IF n = 0 THEN <<>>
        ELSE [k \in 1 .. Len(kept) |-> Difference(K[kept[k][1]], K[kept[k][2]])]

\* One call of add_knowledge(cell, count) on kb: newSentence at the membership
\* test (candidate), the list knowledge when the resolution pass starts (pre),
\* the list new_sentences when it ends (derived), and the knowledge base
\* when the call returns (kb).
AddKnowledgeRun(kb, cell, count) ==
    LET kb1 == RecordMove(kb, cell)
        newSentence == Candidate(kb1, cell, count)
        kb2 == mark_cells(InsertCandidate(kb1, newSentence))
        derived == new_sentences(kb2.knowledge)
        kb3 == [kb2 EXCEPT !.knowledge = @ \o derived]
    IN  [candidate |-> newSentence, pre |-> kb2.knowledge, derived |-> derived,
         kb |-> mark_cells(kb3)]

add_knowledge(kb, cell, count) == AddKnowledgeRun(kb, cell, count).kb

\* Variant: any cell of safes is returned, a move already made included.
make_safe_move_any(kb) == IF kb.safes # {} THEN kb.safes ELSE {None}

\* The values make_safe_move can return: the first cell of self.safes, in the
\* set's iteration order, that is not in moves_made.
make_safe_move(kb) ==
    IF \E safe \in kb.safes : safe \notin kb.moves_made
    THEN {safe \in kb.safes : safe \notin kb.moves_made}
    ELSE {None}

\* Variant: the first cell in row-major order that is not a known mine, a
\* move already made included.
make_random_move_repeating(kb) ==
    LET free == {c \in Cells : c \notin kb.mines}
    IN  IF free = {} THEN None
        ELSE CHOOSE c \in free :
                \A d \in free : c[1] < d[1] \/ (c[1] = d[1] /\ c[2] <= d[2])

\* Variant: the first cell in row-major order that is not a move made, a
\* known mine included.
make_random_move_unmined(kb) ==
    LET free == {c \in Cells : c \notin kb.moves_made}
    IN  IF free = {} THEN None
        ELSE CHOOSE c \in free :
                \A d \in free : c[1] < d[1] \/ (c[1] = d[1] /\ c[2] <= d[2])

\* make_random_move: the first cell in row-major order that is neither a
\* move made nor a known mine.
make_random_move(kb) ==
    LET free == {c \in Cells : c \notin kb.moves_made /\ c \notin kb.mines}
    IN  IF free = {} THEN None
        ELSE CHOOSE c \in free :
                \A d \in free : c[1] < d[1] \/ (c[1] = d[1] /\ c[2] <= d[2])

(***************************************************************************)
(* State machine                                                           *)
(***************************************************************************)

KB == [moves_made |-> moves_made, safes |-> safes, mines |-> mines,
       knowledge |-> knowledge]

SetKB(kb) ==
    /\ moves_made' = kb.moves_made
    /\ safes' = kb.safes
    /\ mines' = kb.mines
    /\ knowledge' = kb.knowledge

\* last records the latest call: its name, arguments and return value and,
\* for add_knowledge, newSentence at the membership test (candidate), the
\* list knowledge when the resolution pass starts (pre) and the list
\* new_sentences when it ends (derived).
NoCall == [op |-> "init", cell |-> None, count |-> 0, ret |-> None,
           repeat |-> FALSE, candidate |-> Sentence({}, 0),
           pre |-> <<>>, derived |-> <<>>]

Call(name, cell) == [NoCall EXCEPT !.op = name, !.cell = cell]

\* The record of a call of add_knowledge(cell, count) made in knowledge base
\* kb, run being AddKnowledgeRun(kb, cell, count).
ObserveCall(kb, cell, count, run) ==
    [op |-> "add_knowledge", cell |-> cell, count |-> count, ret |-> None,
     repeat |-> cell \in kb.moves_made,
     candidate |-> run.candidate, pre |-> run.pre, derived |-> run.derived]

\* MinesweeperAI.__init__: nothing known, for a grid of height x width.
InitAI ==
    /\ moves_made = {}
    /\ safes = {}
    /\ mines = {}
    /\ knowledge = <<>>
    /\ last = NoCall
    /\ nops = 0

\* Minesweeper.__init__ places the mines: any set of cells of the grid.
Init ==
    /\ height \in 1 .. MaxCells
    /\ width \in 1 .. MaxCells
    /\ height * width <= MaxCells
    /\ board \in SUBSET Cells
    /\ InitAI

\* add_knowledge on a cell that is not a mine, with the board's count for it.
Observe ==
    \E cell \in Cells :
        /\ ~is_mine(cell)
        /\ LET run == AddKnowledgeRun(KB, cell, nearby_mines(cell))
           IN  /\ SetKB(run.kb)
               /\ last' = ObserveCall(KB, cell, nearby_mines(cell), run)
        /\ UNCHANGED <<height, width, board, nops>>

\* Variant: make_safe_move records the cell it returns as a move made.
SafeMoveRecording ==
    \E r \in make_safe_move(KB) :
        /\ last' = [Call("make_safe_move", None) EXCEPT !.ret = r]
        /\ moves_made' = IF r = None THEN moves_made ELSE moves_made \cup {r}
        /\ UNCHANGED <<height, width, board, safes, mines, knowledge, nops>>

SafeMove ==
    \E r \in make_safe_move(KB) :
        /\ last' = [Call("make_safe_move", None) EXCEPT !.ret = r]
        /\ UNCHANGED <<height, width, board, moves_made, safes, mines, knowledge, nops>>

RandomMove ==
    /\ last' = [Call("make_random_move", None) EXCEPT !.ret = make_random_move(KB)]
    /\ UNCHANGED <<height, width, board, moves_made, safes, mines, knowledge, nops>>

Next == Observe \/ SafeMove \/ RandomMove

\* The truthful caller: every add_knowledge call is made on a cell that is
\* not a mine, with that cell's nearby_mines.
Spec == Init /\ [][Next]_vars

(***************************************************************************)
(* The unconstrained caller: any method, any cell of the grid, any count.  *)
(***************************************************************************)

InitAny ==
    /\ height \in 1 .. MaxAnyCells
    /\ width \in 1 .. MaxAnyCells
    /\ height * width <= MaxAnyCells
    /\ board = {}
    /\ InitAI

CallMarkMine ==
    \E cell \in Cells :
        /\ nops < MaxOps
        /\ SetKB(mark_mine(KB, cell))
        /\ last' = Call("mark_mine", cell)
        /\ nops' = nops + 1
        /\ UNCHANGED <<height, width, board>>

CallMarkSafe ==
    \E cell \in Cells :
        /\ nops < MaxOps
        /\ SetKB(mark_safe(KB, cell))
        /\ last' = Call("mark_safe", cell)
        /\ nops' = nops + 1
        /\ UNCHANGED <<height, width, board>>

CallMarkCells ==
    /\ nops < MaxOps
    /\ SetKB(mark_cells(KB))
    /\ last' = Call("mark_cells", None)
    /\ nops' = nops + 1
    /\ UNCHANGED <<height, width, board>>

CallAddKnowledge ==
    \E cell \in Cells, count \in 0 .. MaxCount :
        /\ nops < MaxOps
        /\ LET run == AddKnowledgeRun(KB, cell, count)
           IN  /\ SetKB(run.kb)
               /\ last' = ObserveCall(KB, cell, count, run)
        /\ nops' = nops + 1
        /\ UNCHANGED <<height, width, board>>

NextAny == CallMarkMine \/ CallMarkSafe \/ CallMarkCells \/ CallAddKnowledge

SpecAny == InitAny /\ [][NextAny]_vars

(***************************************************************************)
(* The once-per-cell caller: add_knowledge is called at most once for a    *)
(* cell, on a cell that is not a mine, with the board's count for it.     *)
(***************************************************************************)

InitOnce ==
    /\ height = OnceSide
    /\ width = OnceSide
    /\ board \in {b \in SUBSET Cells : Cardinality(b) <= OnceMines}
    /\ InitAI

ObserveOnce ==
    \E cell \in Cells :
        /\ nops < OnceObs
        /\ cell \notin moves_made
        /\ ~is_mine(cell)
        /\ LET run == AddKnowledgeRun(KB, cell, nearby_mines(cell))
           IN  /\ SetKB(run.kb)
               /\ last' = ObserveCall(KB, cell, nearby_mines(cell), run)
        /\ nops' = nops + 1
        /\ UNCHANGED <<height, width, board>>

NextOnce == ObserveOnce

SpecOnce == InitOnce /\ [][NextOnce]_vars

(***************************************************************************)
(* One Sentence object: knowledge holds that sentence alone, and            *)
(* Sentence.mark_mine and Sentence.mark_safe are called on it with any      *)
(* cell of the grid.                                                        *)
(***************************************************************************)

\* Sentence.__init__(cells, count), for any cells of the grid.
InitSentence ==
    /\ height \in 1 .. MaxAnyCells
    /\ width \in 1 .. MaxAnyCells
    /\ height * width <= MaxAnyCells
    /\ board = {}
    /\ moves_made = {}
    /\ safes = {}
    /\ mines = {}
    /\ knowledge \in {<<Sentence(cells, count)>> :
                         cells \in SUBSET Cells, count \in 0 .. MaxCount}
    /\ last = NoCall
    /\ nops = 0

\* last.pre holds the sentence as it was before the call.
SentenceMarkMine ==
    \E cell \in Cells :
        /\ knowledge' = <<Sentence_mark_mine(knowledge[1], cell)>>
        /\ last' = [Call("Sentence.mark_mine", cell) EXCEPT
                        !.ret = Sentence_mark_mine_ret(knowledge[1], cell),
                        !.pre = knowledge]
        /\ UNCHANGED <<height, width, board, moves_made, safes, mines, nops>>

SentenceMarkSafe ==
    \E cell \in Cells :
        /\ knowledge' = <<Sentence_mark_safe(knowledge[1], cell)>>
        /\ last' = [Call("Sentence.mark_safe", cell) EXCEPT
                        !.ret = Sentence_mark_safe_ret(knowledge[1], cell),
                        !.pre = knowledge]
        /\ UNCHANGED <<height, width, board, moves_made, safes, mines, nops>>

NextSentence == SentenceMarkMine \/ SentenceMarkSafe

SpecSentence == InitSentence /\ [][NextSentence]_vars

(***************************************************************************)
(* The driving loop: it takes make_safe_move() if that is not None and     *)
(* make_random_move() otherwise, stops when the chosen cell is a mine or   *)
(* when both return None, and otherwise calls add_knowledge on the chosen  *)
(* cell with the board's count for it.  nops counts the add_knowledge      *)
(* calls; last.op = "stop" once the loop has stopped, last.cell being the  *)
(* cell chosen last.                                                       *)
(***************************************************************************)

\* The cell the loop chooses when make_safe_move returns safe.
DriverChoice(safe) == IF safe # None THEN safe ELSE make_random_move(KB)

DriverObserve ==
    \E safe \in make_safe_move(KB) :
        /\ last.op # "stop"
        /\ nops <= height * width
        /\ DriverChoice(safe) # None
        /\ ~is_mine(DriverChoice(safe))
        /\ LET cell == DriverChoice(safe)
               run == AddKnowledgeRun(KB, cell, nearby_mines(cell))
           IN  /\ SetKB(run.kb)
               /\ last' = ObserveCall(KB, cell, nearby_mines(cell), run)
        /\ nops' = nops + 1
        /\ UNCHANGED <<height, width, board>>

DriverStop ==
    \E safe \in make_safe_move(KB) :
        /\ last.op # "stop"
        /\ DriverChoice(safe) = None \/ is_mine(DriverChoice(safe))
        /\ last' = Call("stop", DriverChoice(safe))
        /\ UNCHANGED <<height, width, board, moves_made, safes, mines, knowledge, nops>>

NextDriver == DriverObserve \/ DriverStop

SpecDriver == Init /\ [][NextDriver]_vars

(***************************************************************************)
(* Properties                                                              *)
(***************************************************************************)

\* The in-bounds 8-neighbourhood of a cell, from the geometry of the grid.
Adjacent(cell) ==
    {c \in Cells : /\ c # cell
                   /\ c[1] - cell[1] \in {-1, 0, 1}
                   /\ c[2] - cell[2] \in {-1, 0, 1}}

\* C1 (soundness): under truthful add_knowledge calls on cells that are not
\* mines, every cell of mines is a mine of the board, in every state.
C1_Soundness == mines \subseteq board

\* A mine has been deduced by a call that also resolved sentences.
C1_Witness ==
    /\ last.op = "add_knowledge"
    /\ mines # {}
    /\ last.derived # <<>>

\* C2: under truthful add_knowledge calls, safes and mines are disjoint in
\* every state.
C2_Disjoint == safes \cap mines = {}

\* Both a mine and a safe cell other than the moves made have been deduced.
C2_Witness ==
    /\ last.op = "add_knowledge"
    /\ mines # {}
    /\ safes \ moves_made # {}

\* C3 (monotonicity): no step of add_knowledge, mark_safe, mark_mine or
\* mark_cells, with any cell and any count, removes a cell from safes or
\* from mines.
C3_Monotone == [][safes \subseteq safes' /\ mines \subseteq mines']_vars

\* add_knowledge was called on a cell already marked as a mine: the cell is
\* added to safes and stays in mines.
C3_Witness ==
    /\ last.op = "add_knowledge"
    /\ last.cell \in mines
    /\ last.cell \in safes

\* C4 (purge invariant): after every completed add_knowledge call, no cell of
\* safes or of mines is in the cells of a sentence of knowledge, the cell
\* just observed in particular.
C4_Purged ==
    last.op = "add_knowledge" =>
        \A k \in DOMAIN knowledge :
            /\ knowledge[k].cells \cap (safes \cup mines) = {}
            /\ last.cell \notin knowledge[k].cells

\* C5 (idempotence of the deduction pass): in every state reached by truthful
\* add_knowledge calls, a second mark_cells call right after a first changes
\* nothing: safes, mines and every sentence are as after the first call.
C5_MarkCellsIdempotent == mark_cells(mark_cells(KB)) = mark_cells(KB)

\* C6 (scenario D): in every state reached by truthful add_knowledge calls,
\* calling add_knowledge again for the cell of the latest call, with the same
\* count, leaves mines and safes as they were after that call.
C6_ReobserveNoChange ==
    last.op = "add_knowledge" =>
        LET again == add_knowledge(KB, last.cell, last.count)
        IN  again.mines = mines /\ again.safes = safes

\* C7: one add_knowledge(cell, count) on a fresh knowledge base puts every
\* in-bounds 8-neighbour of the cell into safes when count is 0, and into
\* mines when count is the number of in-bounds 8-neighbours.
C7_DeterminedObservation ==
    [][(KB = EmptyKB /\ last'.op = "add_knowledge") =>
          /\ (last'.count = 0 => Adjacent(last'.cell) \subseteq safes')
          /\ (last'.count = Cardinality(Adjacent(last'.cell))
                => Adjacent(last'.cell) \subseteq mines')]_vars

\* Scenario B: on the 1 x 2 board, (0, 0) observed with count 1 makes (0, 1)
\* a known mine.
C7_Witness ==
    /\ height = 1 /\ width = 2
    /\ last.op = "add_knowledge"
    /\ last.cell = <<0, 0>> /\ last.count = 1
    /\ moves_made = {<<0, 0>>}
    /\ mines = {<<0, 1>>}

\* C8 (subset resolution): when the resolution pass of add_knowledge ends,
\* for all structurally unequal sentences A, B of knowledge as the pass
\* started, with A.cells a subset of B.cells, a non-empty difference and
\* B.count - A.count >= 0, knowledge holds the sentence with cells
\* B.cells \ A.cells and count B.count - A.count; and with {A,B,C} = 2 and
\* {A,B} = 1 the cell C is in mines when add_knowledge returns.
C8_SubsetResolution ==
    last.op = "add_knowledge" =>
        \A a, b \in Range(last.pre) :
            (/\ a # b
             /\ a.cells \subseteq b.cells
             /\ b.cells \ a.cells # {}
             /\ b.count - a.count >= 0)
            => /\ [cells |-> b.cells \ a.cells, count |-> b.count - a.count]
                    \in Range(last.pre \o last.derived)
               /\ (/\ Cardinality(b.cells) = 3 /\ b.count = 2
                   /\ Cardinality(a.cells) = 2 /\ a.count = 1)
                  => (b.cells \ a.cells) \subseteq mines

\* Scenario C: the pass started with {A,B,C} = 2 and {A,B} = 1 and derived
\* {C} = 1.
C8_Witness ==
    /\ last.op = "add_knowledge"
    /\ \E a, b \in Range(last.pre) :
            /\ Cardinality(b.cells) = 3 /\ b.count = 2
            /\ Cardinality(a.cells) = 2 /\ a.count = 1
            /\ a.cells \subseteq b.cells
            /\ [cells |-> b.cells \ a.cells, count |-> 1] \in Range(last.derived)

\* C9 (sentence count bound): after every completed add_knowledge call of a
\* truthful sequence, every sentence of knowledge has 0 <= count <= |cells|.
C9_CountBound ==
    \A k \in DOMAIN knowledge :
        /\ 0 <= knowledge[k].count
        /\ knowledge[k].count <= Cardinality(knowledge[k].cells)

\* A known mine has been removed from a sentence that still has a mine
\* among several cells.
C9_Witness ==
    /\ last.op = "add_knowledge"
    /\ mines # {}
    /\ \E k \in DOMAIN knowledge :
            /\ 0 < knowledge[k].count
            /\ knowledge[k].count < Cardinality(knowledge[k].cells)

\* C10: make_safe_move returns a cell of safes that is not in moves_made
\* whenever there is one, and returns None exactly when every cell of safes
\* is in moves_made.
C10_SafeMove ==
    last.op = "make_safe_move" =>
        /\ (safes \ moves_made # {}
              => last.ret \in safes /\ last.ret \notin moves_made)
        /\ (last.ret = None <=> safes \subseteq moves_made)

\* make_safe_move returned a cell while other safe cells were moves made.
C10_Witness ==
    /\ last.op = "make_safe_move"
    /\ last.ret # None
    /\ safes \cap moves_made # {}

\* C11: make_random_move returns a cell of the grid that is neither in
\* moves_made nor in mines whenever there is one, and returns None exactly
\* when every cell of the grid is in moves_made or in mines.
C11_RandomMove ==
    last.op = "make_random_move" =>
        /\ (Cells \ (moves_made \cup mines) # {}
              => /\ last.ret \in Cells
                 /\ last.ret \notin moves_made
                 /\ last.ret \notin mines)
        /\ (last.ret = None <=> Cells \subseteq (moves_made \cup mines))

\* make_random_move returned a cell after passing over a known mine that is
\* not a move made.
C11_Witness ==
    /\ last.op = "make_random_move"
    /\ last.ret # None
    /\ \E c \in mines \ moves_made :
            c[1] < last.ret[1] \/ (c[1] = last.ret[1] /\ c[2] < last.ret[2])

\* C12 (the move queries are pure): a call of make_safe_move or of
\* make_random_move, whatever it returns, leaves moves_made, safes, mines and
\* every sentence of knowledge unchanged.
C12_PureQueries ==
    [][last'.op \in {"make_safe_move", "make_random_move"}
          => UNCHANGED <<moves_made, safes, mines, knowledge>>]_vars

\* make_safe_move returned a cell in a knowledge base that holds moves,
\* known mines and sentences.
C12_Witness ==
    /\ last.op = "make_safe_move"
    /\ last.ret # None
    /\ moves_made # {}
    /\ mines # {}
    /\ knowledge # <<>>

\* C13 (sentence cell removal): for every sentence S and cell c,
\* Sentence.mark_mine(c) and Sentence.mark_safe(c) return true and remove c
\* from S.cells when c was a member, mark_mine decreasing S.count by exactly
\* 1 and mark_safe leaving S.count unchanged; when c is not a member both
\* return false and leave S.cells and S.count unchanged.
C13_SentenceRemoval ==
    last.op \in {"Sentence.mark_mine", "Sentence.mark_safe"} =>
        LET S == last.pre[1]
            after == knowledge[1]
        IN  IF last.cell \in S.cells
            THEN /\ last.ret = TRUE
                 /\ after.cells = S.cells \ {last.cell}
                 /\ last.op = "Sentence.mark_mine" => after.count = S.count - 1
                 /\ last.op = "Sentence.mark_safe" => after.count = S.count
            ELSE /\ last.ret = FALSE
                 /\ after.cells = S.cells
                 /\ after.count = S.count

\* Sentence.mark_safe removed a member of a sentence that keeps other cells
\* and a positive count.
C13_Witness ==
    /\ last.op = "Sentence.mark_safe"
    /\ last.ret = TRUE
    /\ last.cell \in last.pre[1].cells
    /\ knowledge[1].cells # {}
    /\ knowledge[1].count > 0

\* C14 (candidate normalization): in every state reached through mark_mine,
\* mark_safe and add_knowledge, newSentence of add_knowledge(cell, count)
\* has, at the membership test, as cells the in-bounds 8-neighbours of cell
\* that are in neither safes nor mines, and as count the given count minus
\* the number of in-bounds 8-neighbours of cell that are in mines.
C14_CandidateNormalized ==
    [][last'.op = "add_knowledge" =>
          last'.candidate =
              Sentence(Adjacent(last'.cell) \ (safes \cup mines),
                       last'.count - Cardinality(Adjacent(last'.cell) \cap mines))]_vars

\* C15 (deduplicated appends): every sentence that add_knowledge appends to
\* knowledge, newSentence and each sentence of new_sentences, is unequal to
\* every sentence in knowledge at the moment it is appended, the sentences
\* appended earlier in the same resolution pass included.
C15_DedupAppends ==
    [][last'.op = "add_knowledge" =>
          /\ Len(InsertCandidate(RecordMove(KB, last'.cell), last'.candidate).knowledge)
                > Len(knowledge)
             => last'.candidate \notin Range(knowledge)
          /\ \A k \in DOMAIN last'.derived :
                /\ last'.derived[k] \notin Range(last'.pre)
                /\ \A j \in 1 .. (k - 1) : last'.derived[j] # last'.derived[k]]_vars

\* C16 (resolution guard): whatever knowledge holds, sentences made
\* inconsistent by untruthful counts included, every sentence appended by the
\* resolution pass of add_knowledge has a non-empty cell set and a count
\* >= 0; a difference with an empty cell set or a negative count is
\* discarded and nothing is appended for it.
C16_ResolutionGuard ==
    last.op = "add_knowledge" =>
        /\ \A k \in DOMAIN last.derived :
              /\ last.derived[k].cells # {}
              /\ last.derived[k].count >= 0
        /\ \A a, b \in Range(last.pre) :
              (/\ a # b
               /\ a.cells \subseteq b.cells
               /\ (b.cells \ a.cells = {} \/ b.count - a.count < 0))
              => Difference(a, b) \notin Range(last.derived)
        /\ Len(knowledge) = Len(last.pre) + Len(last.derived)

\* The resolution pass started with a pair of sentences whose difference has
\* cells and a negative count, and with a pair whose difference has no cell.
C16_Witness ==
    /\ last.op = "add_knowledge"
    /\ \E a, b \in Range(last.pre) :
            /\ a # b
            /\ a.cells \subseteq b.cells
            /\ b.cells \ a.cells # {}
            /\ b.count - a.count < 0
    /\ \E a, b \in Range(last.pre) :
            /\ a # b
            /\ a.cells \subseteq b.cells
            /\ b.cells \ a.cells = {}

\* C17 (mark_mine of the knowledge base is idempotent): in every state,
\* calling mark_mine(cell) twice in a row leaves mines, safes, moves_made and
\* the cells and count of every sentence as after the first call; the first
\* call adds the cell to mines, removes it from every sentence that contains
\* it while decreasing that sentence's count by 1, and leaves the sentences
\* without the cell unchanged.
C17_MarkMineIdempotent ==
    \A cell \in Cells :
        LET first == mark_mine(KB, cell)
            second == mark_mine(first, cell)
        IN  /\ second = first
            /\ first.mines = mines \cup {cell}
            /\ first.safes = safes
            /\ first.moves_made = moves_made
            /\ DOMAIN first.knowledge = DOMAIN knowledge
            /\ \A k \in DOMAIN knowledge :
                  first.knowledge[k] =
                      IF cell \in knowledge[k].cells
                      THEN [cells |-> knowledge[k].cells \ {cell},
                            count |-> knowledge[k].count - 1]
                      ELSE knowledge[k]

\* After a mark_mine call, knowledge holds a sentence with two cells that are
\* not known mines, which a further mark_mine call removes a cell from, and
\* a sentence without cells.
C17_Witness ==
    /\ last.op = "mark_mine"
    /\ last.cell \in mines
    /\ \E k \in DOMAIN knowledge :
            /\ Cardinality(knowledge[k].cells) >= 2
            /\ knowledge[k].cells \cap mines = {}
    /\ \E k \in DOMAIN knowledge : knowledge[k].cells = {}

\* C18 (every sentence stays true): in every state reached by truthful
\* add_knowledge calls, every sentence of knowledge has a count equal to the
\* number of mines of the board among its cells.
C18_SentencesTrue ==
    \A k \in DOMAIN knowledge :
        knowledge[k].count = Cardinality(knowledge[k].cells \cap board)

\* An add_knowledge call removed a known mine from newSentence, derived
\* sentences, and left a sentence with a mine among several cells.
C18_Witness ==
    /\ last.op = "add_knowledge"
    /\ last.candidate.count < last.count
    /\ last.derived # <<>>
    /\ \E k \in DOMAIN knowledge :
            /\ Cardinality(knowledge[k].cells) >= 2
            /\ knowledge[k].count >= 1

\* C19 (safe moves are safe): in every state reached by truthful
\* add_knowledge calls, no cell of safes is a mine of the board, so
\* make_safe_move never returns a cell that contains a mine.
C19_SafesAreSafe ==
    /\ safes \cap board = {}
    /\ (last.op = "make_safe_move" /\ last.ret # None) => ~is_mine(last.ret)

\* make_safe_move returned a deduced safe cell that is next to a mine.
C19_Witness ==
    /\ last.op = "make_safe_move"
    /\ last.ret # None
    /\ last.ret \in safes \ moves_made
    /\ Adjacent(last.ret) \cap board # {}

\* C20 (the driving loop terminates): with the loop that takes
\* make_safe_move() if it is not None and make_random_move() otherwise, stops
\* when the chosen cell is a mine or both return None, and otherwise calls
\* add_knowledge on the chosen cell with its true count: every chosen cell is
\* not yet in moves_made, moves_made grows by one cell at each add_knowledge
\* call, and there are at most height x width add_knowledge calls, after
\* which both queries return None.
C20_DriverTerminates ==
    /\ last.op = "add_knowledge" => ~last.repeat
    /\ (last.op = "stop" /\ last.cell # None) => last.cell \notin moves_made
    /\ nops = Cardinality(moves_made)
    /\ nops <= height * width
    /\ nops = height * width
          => make_safe_move(KB) = {None} /\ make_random_move(KB) = None

\* The loop stopped because both queries returned None, after add_knowledge
\* calls on a board with mines.
C20_Witness ==
    /\ last.op = "stop"
    /\ last.cell = None
    /\ nops >= 3
    /\ board # {}
    /\ mines = board

====
